---- MODULE Spec2Model ----
(***************************************************************************)
(* Cloth simulation with drag (test_py/test_ti/p.clothes.py, "variant B"). *)
(*                                                                         *)
(* State: the fields x, v, vertices, dragging, picked_node, drag_pos, and   *)
(* the position of main in its frame loop.  One action per step of the     *)
(* loop: a call of substep(), update_vertices(), the mouse block, the      *)
(* hand-off to the renderer, and the end of the loop.                      *)
(*                                                                         *)
(* Arithmetic.  The program computes in floating point; the model computes *)
(* in fixed point on integers.  One world unit is L model units, a unit    *)
(* vector has length ONE, forces are in units of 1/FScale, one time unit   *)
(* is one substep (dt = 1), and every division rounds toward zero (TDiv).  *)
(* The formulas are those of the source; the constants are scaled to these *)
(* units and to a grid small enough to enumerate:                          *)
(*     source                          model                              *)
(*     n = 128                         n = 2                              *)
(*     quad_size = 1.0 / n             L \div n = 50                      *)
(*     dt = 2e-2 / n                   1                                  *)
(*     substeps = int(1/60 // dt)      2                                  *)
(*     gravity = [0, -9.8, 0]          <<0, -2, 0>>                       *)
(*     spring_Y = 3e4                  3200 / FScale                      *)
(*     dashpot_damping = 1e4           1 (times quad_size / FScale)       *)
(*     exp(-drag_damping * dt)         DragNum / DragDen = 7/8            *)
(*     ball_radius = 0.3               30                                 *)
(*     tolerance 0.02                  PickTol = 2                        *)
(*     min_dist = 1e10                 BIG                                *)
(*     ray_dir * 1.5                   DragDepthNum / DragDepthDen        *)
(* With n = 2 the spring offsets of length 2 never fall inside the grid.   *)
(* A coincidence of two neighbours (a zero x_ij, whose normalized() is NaN *)
(* in the source) does not occur in the states the model reaches.          *)
(***************************************************************************)
EXTENDS Integers, Sequences, FiniteSets, TLC

\* ------------------------------------------------------------------ bounds
MaxFrames == 3

\* ------------------------------------------------------- program constants
n == 2
L == 100
ONE == 100
FScale == 400
quad_size == L \div n
dt == 1
substeps == 2
gravity == <<0, -2, 0>>
spring_Y == 3200
dashpot_damping == 1
DragNum == 7
DragDen == 8
ball_radius == 30
ball_center == <<0, 0, 0>>
bending_springs == FALSE
PickTol == 2
BIG == 1000000
DragDepthNum == 3
DragDepthDen == 2

\* ------------------------------------------------------------ fixed point
TDiv(a, b) == IF a >= 0 THEN a \div b ELSE -((-a) \div b)

Abs(a) == IF a >= 0 THEN a ELSE -a

Min(a, b) == IF a <= b THEN a ELSE b

RECURSIVE SqrtSearch(_, _, _)
SqrtSearch(s, lo, hi) ==
    IF lo >= hi THEN lo
    ELSE LET mid == (lo + hi + 1) \div 2
         IN  IF mid * mid <= s THEN SqrtSearch(s, mid, hi)
                               ELSE SqrtSearch(s, lo, mid - 1)

ISqrt(s) == SqrtSearch(s, 0, 2047)

\* ---------------------------------------------------------------- vectors
VAdd(a, b) == <<a[1] + b[1], a[2] + b[2], a[3] + b[3]>>

VSub(a, b) == <<a[1] - b[1], a[2] - b[2], a[3] - b[3]>>

VScale(a, s) == <<a[1] * s, a[2] * s, a[3] * s>>

VDiv(a, s) == <<TDiv(a[1], s), TDiv(a[2], s), TDiv(a[3], s)>>

Dot(a, b) == a[1] * b[1] + a[2] * b[2] + a[3] * b[3]

NormSq(a) == Dot(a, a)

Norm(a) == ISqrt(NormSq(a))

\* a / |a|, as a vector of length ONE
Normalized(a) == VDiv(VScale(a, ONE), Norm(a))

Zero3 == <<0, 0, 0>>

\* ------------------------------------------------------------------- grid
Nodes == (0..(n - 1)) \X (0..(n - 1))

\* row-major index of a node: the order of the scans and of the vertex buffer
Idx(p) == p[1] * n + p[2]

NodeAt(q) == <<q \div n, q % n>>

\* a field over the grid, every element computed once, in row-major order
RECURSIVE FieldFrom(_, _)
FieldFrom(f, q) ==
    IF q = n * n - 1 THEN NodeAt(q) :> f[NodeAt(q)]
    ELSE (NodeAt(q) :> f[NodeAt(q)]) @@ FieldFrom(f, q + 1)

Field(f) == FieldFrom(f, 0)

InGrid(p) == 0 <= p[1] /\ p[1] < n /\ 0 <= p[2] /\ p[2] < n

\* initialize_spring_offsets
spring_offsets ==
    IF bending_springs
    THEN {o \in (-1..1) \X (-1..1) : o # <<0, 0>>}
    ELSE {o \in (-2..2) \X (-2..2) : o # <<0, 0>> /\ Abs(o[1]) + Abs(o[2]) <= 2}

\* initialize_mass_points: the lattice, shifted by one random offset
InitPos(p, ro) ==
    <<p[1] * quad_size - L \div 2 + ro[1], (6 * L) \div 10, p[2] * quad_size - L \div 2 + ro[2]>>

\* ---------------------------------------------------------------- substep
\* the gravity pass
GravityPass(vv) == Field([p \in Nodes |-> VAdd(vv[p], VScale(gravity, dt))])

\* the rest length of the spring of an offset: quad_size * |i - j|
OriginalDist(o) == TDiv(quad_size * ISqrt(NormSq(<<o[1], o[2], 0>>) * ONE * ONE), ONE)

RestLength == [o \in spring_offsets |-> OriginalDist(o)]

\* the force the spring between p and its neighbour j exerts on p, reading
\* positions xx and velocities vv
OneSpring(p, j, xx, vv) ==
    LET x_ij == VSub(xx[p], xx[j])
        v_ij == VSub(vv[p], vv[j])
        current_dist == Norm(x_ij)
        d == VDiv(VScale(x_ij, ONE), current_dist)
        original_dist == RestLength[<<p[1] - j[1], p[2] - j[2]>>]
        elastic == VDiv(VScale(d, -spring_Y * TDiv((current_dist - original_dist) * ONE, original_dist)),
                        ONE * ONE)
        damping == VDiv(VScale(d, -TDiv(Dot(v_ij, d), ONE) * dashpot_damping * quad_size), ONE)
    IN  VAdd(elastic, damping)

\* the offsets in the order of the list spring_offsets
RECURSIVE SeqOf(_)
SeqOf(S) ==
    IF S = {} THEN <<>>
    ELSE LET o == CHOOSE q \in S : \A r \in S : q[1] < r[1] \/ (q[1] = r[1] /\ q[2] <= r[2])
         IN  <<o>> \o SeqOf(S \ {o})

OffsetSeq == SeqOf(spring_offsets)

RECURSIVE SumForces(_, _, _, _)
SumForces(p, m, xx, vv) ==
    IF m > Len(OffsetSeq) THEN Zero3
    ELSE LET j == <<p[1] + OffsetSeq[m][1], p[2] + OffsetSeq[m][2]>>
             rest == SumForces(p, m + 1, xx, vv)
         IN  IF InGrid(j) THEN VAdd(OneSpring(p, j, xx, vv), rest) ELSE rest

SpringForce(p, xx, vv) == SumForces(p, 1, xx, vv)

\* The spring pass is one parallel loop that reads v[j] and writes v[i] with
\* no barrier between.  A schedule is a block size B: the nodes run in
\* row-major blocks of B threads, a block reading what the blocks before it
\* wrote.  B = n*n is one block (every read sees the pre-pass value), B = 1
\* is the serial loop.
Wave(p, B) == Idx(p) \div B

RECURSIVE SpringWaves(_, _, _, _)
SpringWaves(xx, vv, B, w) ==
    IF w * B >= n * n THEN vv
    ELSE SpringWaves(xx,
                     Field([p \in Nodes |->
                        IF Wave(p, B) = w
                        THEN VAdd(vv[p], VDiv(VScale(SpringForce(p, xx, vv), dt), FScale))
                        ELSE vv[p]]),
                     B, w + 1)

SpringPass(xx, vv, B) == SpringWaves(xx, vv, B, 0)

\* the third pass, for one node: damping, drag override, collision; the
\* velocity the position is integrated with
DragDamp(a) == VDiv(VScale(a, DragNum), DragDen)

\* variant: the pull overshoots the target by the whole offset
Override_Double(target, pos) == VScale(VDiv(VSub(target, pos), dt), 2)

Override(target, pos) == VDiv(VDiv(VSub(target, pos), dt), 2)

Collide(pos, vel) ==
    LET offset_to_center == VSub(pos, ball_center)
    IN  IF NormSq(offset_to_center) <= ball_radius * ball_radius   \* norm <= ball_radius, exactly
        THEN LET normal == Normalized(offset_to_center)
             IN  VSub(vel, VDiv(VScale(normal, Min(TDiv(Dot(vel, normal), ONE), 0)), ONE))
        ELSE vel

\* variant: the collision test is the else branch of the drag override
ThirdVel_Else(p, pos, vel, drg, pk, target) ==
    IF drg = 1 /\ p = pk THEN Override(target, pos) ELSE Collide(pos, DragDamp(vel))

ThirdVel(p, pos, vel, drg, pk, target) ==
    LET v1 == DragDamp(vel)
        v2 == IF drg = 1 /\ p = pk THEN Override(target, pos) ELSE v1
    IN  Collide(pos, v2)

\* the boundary pin
Pinned(p) == p[2] = n - 1

PinPos(p) == <<p[1] * quad_size - L \div 2, (6 * L) \div 10, L \div 2>>

\* variant: the pin runs before the third pass
Substep_PinFirst(xx, vv, drg, pk, target, B) ==
    LET vs == SpringPass(xx, GravityPass(vv), B)
        xp == Field([p \in Nodes |-> IF Pinned(p) THEN PinPos(p) ELSE xx[p]])
        vp == Field([p \in Nodes |-> IF Pinned(p) THEN Zero3 ELSE vs[p]])
        v3 == Field([p \in Nodes |-> ThirdVel(p, xp[p], vp[p], drg, pk, target)])
    IN  [x |-> [p \in Nodes |-> VAdd(xp[p], VScale(v3[p], dt))],
         v |-> v3,
         vs |-> vs]

\* substep(): gravity pass, spring pass under schedule B, third pass, pin.
\* vs is the velocity field the spring pass left.
Substep(xx, vv, drg, pk, target, B) ==
    LET vs == SpringPass(xx, GravityPass(vv), B)
        v3 == Field([p \in Nodes |-> ThirdVel(p, xx[p], vs[p], drg, pk, target)])
        x3 == Field([p \in Nodes |-> VAdd(xx[p], VScale(v3[p], dt))])
    IN  [x |-> [p \in Nodes |-> IF Pinned(p) THEN PinPos(p) ELSE x3[p]],
         v |-> [p \in Nodes |-> IF Pinned(p) THEN Zero3 ELSE v3[p]],
         vs |-> vs]

\* update_vertices
Flatten(xx) == [q \in 0..(n * n - 1) |-> xx[NodeAt(q)]]

\* ---------------------------------------------------------------- picking
NoNode == <<-1, -1>>

\* pick_node's distance of a position to the ray, squared (the comparisons
\* of the scan are between distances, so they are the same on the squares)
RayDistSq(pos, r) ==
    LET to_node == VSub(pos, r.ori)
        t == Dot(to_node, r.dir)
        closest == VAdd(r.ori, VDiv(VScale(r.dir, t), ONE * ONE))
    IN  NormSq(VSub(closest, pos))

\* variant: a tie goes to the node scanned last
RECURSIVE PickScan_LastWins(_, _, _, _, _)
PickScan_LastWins(xx, r, q, node, min_dist) ==
    IF q >= n * n THEN node
    ELSE LET dist == RayDistSq(xx[NodeAt(q)], r)
         IN  IF dist < PickTol * PickTol /\ dist <= min_dist
             THEN PickScan_LastWins(xx, r, q + 1, NodeAt(q), dist)
             ELSE PickScan_LastWins(xx, r, q + 1, node, min_dist)

\* the scan of pick_node from row-major index q on, with the best so far
RECURSIVE PickScan(_, _, _, _, _)
PickScan(xx, r, q, node, min_dist) ==
    IF q >= n * n THEN node
    ELSE LET dist == RayDistSq(xx[NodeAt(q)], r)
         IN  IF dist < PickTol * PickTol /\ dist < min_dist
             THEN PickScan(xx, r, q + 1, NodeAt(q), dist)
             ELSE PickScan(xx, r, q + 1, node, min_dist)

pick_node(xx, r) == PickScan(xx, r, 0, NoNode, BIG)

\* ------------------------------------------------------------- frame loop
\* variant: the mouse block runs before the substeps of the frame
FrameOrder_MouseFirst == <<"mouse", "substeps", "update_vertices", "show">>

\* the steps of one pass of main's while loop, in the order of the source
FrameOrder == <<"substeps", "update_vertices", "mouse", "show">>

\* the drag target of a ray: ray_ori + ray_dir * 1.5
DragTarget(r) == VAdd(r.ori, VDiv(VScale(r.dir, DragDepthNum * L), DragDepthDen * ONE))

\* variant: a held button picks again and the drag jumps to the new node
MouseUpdate_Repick(drg, pk, target, isPressed, r, xx) ==
    IF isPressed
    THEN LET got == pick_node(xx, r)
         IN  IF got # NoNode
             THEN [dragging |-> 1, picked_node |-> got, drag_pos |-> DragTarget(r),
                   picked |-> got, called |-> 1]
             ELSE [dragging |-> drg, picked_node |-> pk, drag_pos |-> target,
                   picked |-> got, called |-> 1]
    ELSE [dragging |-> 0, picked_node |-> pk, drag_pos |-> target,
          picked |-> NoNode, called |-> 0]

\* variant: a release also clears picked_node
MouseUpdate_Clear(drg, pk, target, isPressed, r, xx) ==
    IF isPressed
    THEN IF drg = 0
         THEN LET got == pick_node(xx, r)
              IN  IF got # NoNode
                  THEN [dragging |-> 1, picked_node |-> got, drag_pos |-> target,
                        picked |-> got, called |-> 1]
                  ELSE [dragging |-> drg, picked_node |-> pk, drag_pos |-> target,
                        picked |-> got, called |-> 1]
         ELSE [dragging |-> drg, picked_node |-> pk, drag_pos |-> DragTarget(r),
               picked |-> NoNode, called |-> 0]
    ELSE [dragging |-> 0, picked_node |-> NoNode, drag_pos |-> target,
          picked |-> NoNode, called |-> 0]

\* the mouse block of main for a frame whose ray could be built: the drag
\* state after it, the result of pick_node and whether it was called
MouseUpdate(drg, pk, target, isPressed, r, xx) ==
    IF isPressed
    THEN IF drg = 0
         THEN LET got == pick_node(xx, r)
              IN  IF got # NoNode
                  THEN [dragging |-> 1, picked_node |-> got, drag_pos |-> target,
                        picked |-> got, called |-> 1]
                  ELSE [dragging |-> drg, picked_node |-> pk, drag_pos |-> target,
                        picked |-> got, called |-> 1]
         ELSE [dragging |-> drg, picked_node |-> pk, drag_pos |-> DragTarget(r),
               picked |-> NoNode, called |-> 0]
    ELSE [dragging |-> 0, picked_node |-> pk, drag_pos |-> target,
          picked |-> NoNode, called |-> 0]

\* ------------------------------------------------------------ host inputs
NoRay == [ori |-> Zero3, dir |-> Zero3]

\* cursor rays get_mouse_ray returns: origin on the camera side, unit direction
Rays ==
    { [ori |-> <<-50, 60, 300>>, dir |-> <<0, 0, -ONE>>],
      [ori |-> <<-49, 57, 300>>, dir |-> <<0, 0, -ONE>>],
      [ori |-> <<25, 0, 300>>, dir |-> <<0, 0, -ONE>>] }

\* the one random offset of initialize_mass_points
RandomOffsets == {<<0, 0>>, <<1, -2>>}

VARIABLES
    x, v, vertices,                 \* the fields x, v, vertices
    dragging, picked_node, drag_pos, \* the drag state fields
    ph, k, frame, status,           \* position in main: step of FrameOrder, substeps done, frame number, running / closed / raised
    pressed, ray, picked, degenerate, \* this frame's input: button, ray, pick_node's result, singular matrix
    shown,                          \* the vertices last handed to the renderer
    x_init, x_prev, v_spring, v_snap, \* history: initial positions; positions before, and spring-pass velocities of, the last substep
    log, npicks, stamps, lastDragged \* history: steps of the current frame, calls to pick_node, frame stamps, node of the last drag

vars == <<x, v, vertices, dragging, picked_node, drag_pos, ph, k, frame, status,
          pressed, ray, picked, degenerate, shown,
          x_init, x_prev, v_spring, v_snap, log, npicks, stamps, lastDragged>>

progVars == <<x, v, vertices, dragging, picked_node, drag_pos>>
inputVars == <<pressed, ray, picked, degenerate>>
physHist == <<x_prev, v_spring, v_snap>>

Init ==
    /\ \E ro \in RandomOffsets : x = [p \in Nodes |-> InitPos(p, ro)]
    /\ v = [p \in Nodes |-> Zero3]
    /\ vertices = [q \in 0..(n * n - 1) |-> Zero3]
    /\ dragging = 0
    /\ picked_node = <<0, 0>>
    /\ drag_pos = Zero3
    /\ ph = 1 /\ k = 0 /\ frame = 1 /\ status = "running"
    /\ pressed = FALSE /\ ray = NoRay /\ picked = NoNode /\ degenerate = FALSE
    /\ shown = [q \in 0..(n * n - 1) |-> Zero3]
    /\ x_init = x /\ x_prev = x /\ v_spring = v /\ v_snap = v
    /\ log = <<>> /\ npicks = 0
    /\ stamps = [mouse |-> 0, used |-> 0, at |-> 0, pos |-> 0, start |-> 0]
    /\ lastDragged = NoNode

Phase == IF ph \in 1..Len(FrameOrder) THEN FrameOrder[ph] ELSE "none"

Logged(name) == Append(IF ph = 1 /\ k = 0 THEN <<>> ELSE log, name)

\* the step after the current one; show is the last of a frame
Advance ==
    /\ ph' = IF ph = Len(FrameOrder) THEN 1 ELSE ph + 1
    /\ frame' = IF ph = Len(FrameOrder) THEN frame + 1 ELSE frame
    /\ k' = IF ph = Len(FrameOrder) THEN 0 ELSE k

AtLoopHead == status = "running" /\ ph = 1 /\ k = 0

\* while window.running: the window was closed
Close ==
    /\ AtLoopHead
    /\ status' = "closed"
    /\ UNCHANGED <<progVars, ph, k, frame, inputVars, shown, x_init, physHist, log, npicks,
                   stamps, lastDragged>>

\* one call of substep() in the for loop of the frame
SubstepCall ==
    /\ status = "running" /\ Phase = "substeps" /\ frame <= MaxFrames
    /\ \E B \in 1..(n * n) :
         LET s == Substep(x, v, dragging, picked_node, drag_pos, B)
         IN  /\ x' = s.x
             /\ v' = s.v
             /\ v_spring' = s.vs
    /\ v_snap' = SpringPass(x, GravityPass(v), n * n)
    /\ x_prev' = x
    /\ log' = Logged("substep")
    /\ stamps' = [stamps EXCEPT !.used = stamps.mouse, !.at = frame]
    /\ IF k + 1 = substeps
       THEN Advance
       ELSE k' = k + 1 /\ UNCHANGED <<ph, frame>>
    /\ UNCHANGED <<vertices, dragging, picked_node, drag_pos, status, inputVars, shown,
                   x_init, npicks, lastDragged>>

UpdateVertices ==
    /\ status = "running" /\ Phase = "update_vertices"
    /\ vertices' = Flatten(x)
    /\ log' = Logged("update_vertices")
    /\ Advance
    /\ UNCHANGED <<x, v, dragging, picked_node, drag_pos, status, inputVars, shown,
                   x_init, physHist, npicks, stamps, lastDragged>>

\* the mouse block with the given button state and ray
MouseWith(isPressed, r) ==
    LET m == MouseUpdate(dragging, picked_node, drag_pos, isPressed, r, x)
    IN  /\ dragging' = m.dragging
        /\ picked_node' = m.picked_node
        /\ drag_pos' = m.drag_pos
        /\ picked' = m.picked
        /\ npicks' = npicks + m.called
        /\ pressed' = isPressed
        /\ ray' = r
        /\ degenerate' = FALSE
        /\ stamps' = [stamps EXCEPT !.mouse = frame,
                                    !.pos = IF isPressed /\ dragging = 1 THEN frame ELSE @,
                                    !.start = IF dragging = 0 /\ m.dragging = 1 THEN frame ELSE @]
        /\ lastDragged' = IF dragging = 0 /\ m.dragging = 1 THEN m.picked_node ELSE lastDragged
        /\ log' = Logged("mouse")
        /\ Advance
        /\ UNCHANGED <<x, v, vertices, status, shown, x_init, physHist>>

MouseReleased ==
    /\ status = "running" /\ Phase = "mouse" /\ frame <= MaxFrames
    /\ MouseWith(FALSE, NoRay)

MousePressed ==
    /\ status = "running" /\ Phase = "mouse" /\ frame <= MaxFrames
    /\ \E r \in Rays : MouseWith(TRUE, r)

\* the button is pressed and projection * view is singular: np.linalg.inv
\* raises LinAlgError in get_mouse_ray, nothing catches it, main ends
MouseSingular ==
    /\ status = "running" /\ Phase = "mouse" /\ frame <= MaxFrames
    /\ pressed' = TRUE /\ ray' = NoRay /\ picked' = NoNode /\ degenerate' = TRUE
    /\ status' = "raised"
    /\ log' = Logged("mouse")
    /\ UNCHANGED <<progVars, ph, k, frame, shown, x_init, physHist, npicks, stamps, lastDragged>>

\* scene.mesh(vertices, ...); canvas.scene(scene); window.show()
Show ==
    /\ status = "running" /\ Phase = "show"
    /\ shown' = vertices
    /\ log' = Logged("show")
    /\ Advance
    /\ UNCHANGED <<progVars, status, inputVars, x_init, physHist, npicks, stamps, lastDragged>>

Next ==
    \/ Close
    \/ SubstepCall
    \/ UpdateVertices
    \/ MouseReleased
    \/ MousePressed
    \/ MouseSingular
    \/ Show

Spec == Init /\ [][Next]_vars

\* ------------------------------------------------- pick_node on its own
\* positions the nodes may have when the button is pressed
PickPositions ==
    { <<-50, 60, -50>>, <<-50, 60, 50>>, <<-49, 59, 0>>, <<0, 57, -40>>, <<0, 61, 50>>, <<-50, 62, 0>> }

PickRays ==
    { [ori |-> <<-50, 60, 300>>, dir |-> <<0, 0, -ONE>>],
      [ori |-> <<-49, 60, 300>>, dir |-> <<0, 0, -ONE>>],
      [ori |-> <<0, -120, 290>>, dir |-> <<0, 60, -80>>] }

PickInit ==
    /\ x \in [Nodes -> PickPositions]
    /\ ray \in PickRays
    /\ v = [p \in Nodes |-> Zero3]
    /\ vertices = [q \in 0..(n * n - 1) |-> Zero3]
    /\ dragging = 0
    /\ picked_node = <<0, 0>>
    /\ drag_pos = Zero3
    /\ ph = 3 /\ k = 0 /\ frame = 1 /\ status = "running"
    /\ pressed = TRUE /\ picked = NoNode /\ degenerate = FALSE
    /\ shown = [q \in 0..(n * n - 1) |-> Zero3]
    /\ x_init = x /\ x_prev = x /\ v_spring = v /\ v_snap = v
    /\ log = <<>> /\ npicks = 0
    /\ stamps = [mouse |-> 0, used |-> 0, at |-> 0, pos |-> 0, start |-> 0]
    /\ lastDragged = NoNode

PickCall ==
    /\ npicks = 0
    /\ picked' = pick_node(x, ray)
    /\ npicks' = 1
    /\ UNCHANGED <<progVars, ph, k, frame, status, pressed, ray, degenerate, shown,
                   x_init, physHist, log, stamps, lastDragged>>

SpecPick == PickInit /\ [][PickCall]_vars

\* ================================================================ claims
\* the state right after a call of substep(): the drag state is the one the
\* call read, x_prev the positions it started from
JustStepped == log # <<>> /\ log[Len(log)] = "substep"

PrefixOf(a, b) == Len(a) <= Len(b) /\ a = SubSeq(b, 1, Len(a))

SubstepLog == [m \in 1..substeps |-> "substep"]

\* ---- C1
C1_Step ==
    /\ (dragging = 0 /\ dragging' = 1)
         => (Phase = "mouse" /\ pressed' /\ npicks' = npicks + 1 /\ picked' # NoNode
             /\ picked_node' = picked')
    /\ (Phase = "mouse" /\ dragging = 0 /\ pressed' /\ npicks' = npicks + 1 /\ picked' # NoNode)
         => (dragging' = 1 /\ picked_node' = picked')
    /\ (Phase = "mouse" /\ dragging = 0 /\ pressed' /\ npicks' = npicks + 1 /\ picked' = NoNode)
         => UNCHANGED <<dragging, picked_node, drag_pos>>
    /\ (Phase = "mouse" /\ dragging = 1 /\ pressed')
         => (dragging' = 1 /\ npicks' = npicks /\ picked_node' = picked_node)
    /\ (dragging = 1 /\ dragging' = 0) => (Phase = "mouse" /\ ~pressed')
    /\ (Phase = "mouse" /\ dragging = 1 /\ ~pressed') => dragging' = 0
    /\ (Phase # "mouse") => UNCHANGED <<dragging, picked_node, drag_pos>>

\* C1: the drag controller's transitions.  Idle and press and successful pick:
\* Dragging, the picked node recorded.  Idle and press and failed pick: drag
\* state unchanged.  Dragging and press: Dragging, pick_node not called,
\* picked_node unchanged.  Dragging and release: Idle.  The flag changes in no
\* other step.
C1_DragTransitions == [][C1_Step]_vars

\* a drag was started, held for a frame and released
C1_Witness == dragging = 0 /\ lastDragged # NoNode /\ stamps.pos > stamps.start

\* ---- C2
\* C2 as stated: in a frame the mouse block precedes every substep, and a
\* substep reads the drag state written from its own frame's input.
C2_MouseBeforeSubsteps ==
    /\ \A a, b \in 1..Len(log) : (log[a] = "mouse" /\ log[b] = "substep") => a < b
    /\ stamps.at > 0 => stamps.used = stamps.at

\* C2 amended: a frame runs its substeps, then update_vertices, then the mouse
\* block, then the hand-off to the renderer; a substep of frame f reads the
\* drag state the mouse block of frame f - 1 left (the initial one in frame 1).
C2_FrameOrder ==
    /\ PrefixOf(log, SubstepLog \o <<"update_vertices", "mouse", "show">>)
    /\ stamps.at > 0 => stamps.used = stamps.at - 1

\* the second frame ran to its end after a pressed button in the first
C2_Witness == Len(log) = substeps + 3 /\ stamps.at = 2 /\ stamps.start = 1

\* ---- C3
\* C3 as stated: while Idle, picked_node does not hold the node of the drag
\* that ended.
C3_ClearedWhenIdle == dragging = 0 => picked_node # lastDragged

\* C3 amended: a release only clears the flag.  picked_node is always a grid
\* index, and while Idle after a drag it still holds the node of that drag.
C3_KeptWhenIdle ==
    /\ InGrid(picked_node)
    /\ (dragging = 0 /\ lastDragged # NoNode) => picked_node = lastDragged

\* Idle after the drag of a node other than the initial (0, 0)
C3_Witness == dragging = 0 /\ lastDragged # NoNode /\ lastDragged # <<0, 0>> /\ ~pressed

\* ---- C4
\* C4: every read of a neighbour's velocity in the spring pass sees the value
\* the neighbour had when the pass began, so the pass leaves the velocities the
\* one-block schedule leaves.
C4_SnapshotReads == v_spring = v_snap

\* ---- C5
\* C5 as stated: after every substep the pinned nodes are at rest at the
\* positions initialize_mass_points gave them.
C5_PinnedAtInitial ==
    stamps.at > 0 => \A p \in Nodes : Pinned(p) => (v[p] = Zero3 /\ x[p] = x_init[p])

\* C5 amended: after every substep the pinned node (i, n-1) is at rest at
\* (i * quad_size - 0.5, 0.6, 0.5), whatever the passes computed for it.
C5_PinnedAtFixed ==
    stamps.at > 0 =>
        \A i \in 0..(n - 1) :
            /\ v[<<i, n - 1>>] = <<0, 0, 0>>
            /\ x[<<i, n - 1>>] = <<i * quad_size - L \div 2, (6 * L) \div 10, L \div 2>>

\* a substep ran while a pinned node was the picked node of an active drag
C5_Witness == JustStepped /\ dragging = 1 /\ Pinned(picked_node) /\ stamps.at > stamps.start

\* ---- C6
DistBefore == NormSq(VSub(drag_pos, x_prev[picked_node]))

DistAfter == NormSq(VSub(drag_pos, x[picked_node]))

\* C6 as stated: every substep of an active drag brings the picked node
\* strictly closer to the target, unless it is on it.
C6_AlwaysCloser ==
    (JustStepped /\ dragging = 1 /\ drag_pos # x_prev[picked_node]) => DistAfter < DistBefore

C6_Free ==
    /\ ~Pinned(picked_node)
    /\ NormSq(VSub(x_prev[picked_node], ball_center)) > ball_radius * ball_radius
    /\ \E c \in 1..3 : Abs(drag_pos[c] - x_prev[picked_node][c]) >= 2

\* C6 amended: a substep of an active drag brings the picked node strictly
\* closer to the target when the node is not pinned, is outside the collider
\* and is further from the target than the rounding of the arithmetic.
C6_CloserWhenFree == (JustStepped /\ dragging = 1 /\ C6_Free) => DistAfter < DistBefore

C6_Witness == JustStepped /\ dragging = 1 /\ C6_Free

\* ---- C9
\* (target - position) / dt * 0.5 for the picked node, from the positions the
\* substep started from
C9_Pull == <<TDiv(drag_pos[1] - x_prev[picked_node][1], 2 * dt),
             TDiv(drag_pos[2] - x_prev[picked_node][2], 2 * dt),
             TDiv(drag_pos[3] - x_prev[picked_node][3], 2 * dt)>>

C9_Inside == NormSq(VSub(x_prev[picked_node], ball_center)) <= ball_radius * ball_radius

C9_Normal == Normalized(VSub(x_prev[picked_node], ball_center))

\* C9 as stated: the picked node of an active drag is integrated with exactly
\* the pull, also within the collider radius.
C9_PullOnly ==
    (JustStepped /\ dragging = 1 /\ ~Pinned(picked_node)) => v[picked_node] = C9_Pull

\* C9 amended: the picked node is integrated with exactly the pull when it is
\* outside the collider; within the radius the collision projection is applied
\* to the pull as to any other velocity: a pull with no inward part is kept, an
\* inward part is taken out of it.
C9_PullThenCollide ==
    (JustStepped /\ dragging = 1 /\ ~Pinned(picked_node)) =>
        /\ ~C9_Inside => v[picked_node] = C9_Pull
        /\ (C9_Inside /\ Dot(C9_Pull, C9_Normal) >= 0) => v[picked_node] = C9_Pull
        /\ (C9_Inside /\ Dot(C9_Pull, C9_Normal) <= -2 * ONE)
             => Dot(v[picked_node], C9_Normal) > Dot(C9_Pull, C9_Normal)

\* the picked node was inside the collider and pulled inward
C9_Witness ==
    /\ JustStepped /\ dragging = 1 /\ ~Pinned(picked_node)
    /\ C9_Inside /\ Dot(C9_Pull, C9_Normal) <= -2 * ONE

\* ---- C7
\* the node pick_node is to return: none when no node is nearer the ray than
\* the tolerance, else the nearest, the first in row-major order among equals
Nearest(xx, r) ==
    LET near == {p \in Nodes : RayDistSq(xx[p], r) < PickTol * PickTol}
    IN  IF near = {} THEN NoNode
        ELSE CHOOSE p \in near :
               \A q \in near :
                  \/ RayDistSq(xx[p], r) < RayDistSq(xx[q], r)
                  \/ (RayDistSq(xx[p], r) = RayDistSq(xx[q], r) /\ Idx(p) <= Idx(q))

\* C7: pick_node returns the node nearest the ray when that node is nearer
\* than the tolerance, the first in row-major order among equally near nodes,
\* and none otherwise.
C7_PickNearest == npicks = 1 => picked = Nearest(x, ray)

\* two nodes equally near the ray, a third beyond the tolerance, the first of
\* the two picked
C7_Witness ==
    /\ npicks = 1 /\ picked # NoNode
    /\ \E q \in Nodes : Idx(q) > Idx(picked) /\ RayDistSq(x[q], ray) = RayDistSq(x[picked], ray)
    /\ \E q \in Nodes : RayDistSq(x[q], ray) >= PickTol * PickTol

\* ---- C8
\* C8: a pressed button with a singular projection * view does not end the
\* frame loop.
C8_LoopContinues == degenerate => status = "running"

\* ---- C10
\* C10: a substep of an active drag reads a target written from a ray of a
\* frame at or after the press that started the drag.
C10_FreshTarget == (JustStepped /\ dragging = 1) => stamps.pos >= stamps.start
====
